---- MODULE Spec2Model ----
(***************************************************************************)
(* Model of workoutdistributor/__main__.py: the Workout selection engine   *)
(* (is_exercise_available, has_unmet_goals, been_too_long,                 *)
(* _do_exercise_action, pick_action_for), WorkoutPeriod.is_in, and the     *)
(* sample-week generators with day randomization.                          *)
(*                                                                         *)
(* Time is counted in ticks.  A datetime is an integer number of ticks, a  *)
(* timedelta is an integer number of ticks, a calendar date is the         *)
(* datetime divided by TicksPerDay, and date.weekday() is the date modulo  *)
(* DaysPerWeek.                                                            *)
(***************************************************************************)
EXTENDS Integers, Sequences, FiniteSets, TLC

VARIABLES
    plan,       \* Workout.workout_plan: [exercises : Seq, periods : Seq]
    actions,    \* Workout.actions: the history, a sequence of Action records
    now,        \* the argument of the latest pick_action_for call (-1: no call yet)
    result,     \* its return value: <<>> for None, <<a>> for the Action a
    before,     \* Workout.actions as it was when the latest call was entered
    pc,         \* position of the driver, or the exception that ended it
    current,    \* generate_sample_week_increments: the next instant to yield
    final,      \* generate_sample_week_increments: the last instant allowed
    idx,        \* position of the loop over workout.actions
    current_day,             \* weekday of the batch being collected
    this_day_actions,        \* the batch: references (history indices) to Actions
    day_randomized_actions,  \* the flushed batches: references to Actions
    emitted,    \* the Actions yielded so far, as they were when yielded
    yielded     \* how many instants a plain loop over the increments has received

engine_vars == <<plan, actions, now, result, before>>

generator_vars ==
    <<current, final, idx, current_day, this_day_actions, day_randomized_actions, emitted, yielded>>

vars == <<plan, actions, now, result, before, pc,
          current, final, idx, current_day, this_day_actions,
          day_randomized_actions, emitted, yielded>>

----------------------------------------------------------------------------
(* Bounds of the model *)

TicksPerDay == 4
MaxTime == 7
MaxActions == 3
MaxExercises == 2
MaxStart == 1

(* datetime.weekday() ranges over 0..6 *)
DaysPerWeek == 7

Times == 0 .. MaxTime

None == <<>>

----------------------------------------------------------------------------
(* datetime arithmetic *)

\* datetime(now.year, now.month, now.day, tzinfo=now.tzinfo): midnight of now's date
midnight(t) == (t \div TicksPerDay) * TicksPerDay

\* now.weekday()
weekday(t) == (t \div TicksPerDay) % DaysPerWeek

----------------------------------------------------------------------------
(* The inputs: exercises, goal periods, workout periods, plans *)

GoalPeriod(p, r, s) == [period |-> p, reps_per_period |-> r, sets_per_period |-> s]

Exercise(n, rmin, rmax, smin, smax, tmin, tmax, g) ==
    [name |-> n,
     minimum_reps |-> rmin, maximum_reps |-> rmax,
     minimum_sets |-> smin, maximum_sets |-> smax,
     minimum_timedelta_between |-> tmin,
     maximum_timedelta_between |-> tmax,
     goals |-> g]

WorkoutPeriod(d, s, e) == [day_of_week |-> d, start |-> s, end |-> e]

\* Validated exercises (min <= max for reps, sets and the two intervals).
ExercisePool ==
    { Exercise("A", 1, 2, 1, 1, 1, 2, << GoalPeriod(3, 2, 2) >>),
      Exercise("B", 1, 1, 1, 2, 2, 3, << >>),
      Exercise("C", 1, 1, 1, 1, 0, 1, << GoalPeriod(2, 3, 0), GoalPeriod(1, 1, 1) >>) }

\* action.exercise: the Exercise an Action refers to by name
ExerciseNamed(n) == CHOOSE e \in ExercisePool : e.name = n

\* Lists of workout periods: none; two windows on weekday 0, in both orders;
\* one window on weekday 1 whose end offset lies past the end of the day;
\* windows on two weekdays.
PeriodLists ==
    LET early == WorkoutPeriod(0, 1, 2)
        late == WorkoutPeriod(0, 3, 3)
        long == WorkoutPeriod(1, 0, TicksPerDay + 1)
    IN  { << >>, << early, late >>, << late, early >>, << long >>, << early, long >> }

\* The sequences without repetition of at most n elements of S
RECURSIVE InjSeqs(_, _)
InjSeqs(S, n) ==
    IF n = 0 \/ S = {} THEN { << >> }
    ELSE { << >> } \cup
         UNION { { <<x>> \o s : s \in InjSeqs(S \ {x}, n - 1) } : x \in S }

Plans ==
    [exercises : InjSeqs(ExercisePool, MaxExercises),
     periods : PeriodLists]

----------------------------------------------------------------------------
(* WorkoutPeriod.is_in *)

\* is_in with the end bound excluded
is_in_exclusive_end(period, t) ==
    LET d == midnight(t)
        start == d + period.start
        end == d + period.end
    IN  start <= t /\ t < end

is_in(period, t) ==
    LET d == midnight(t)
        start == d + period.start
        end == d + period.end
    IN  start <= t /\ t <= end

----------------------------------------------------------------------------
(* Workout *)

\* the scan with the operands of the subtraction exchanged
RECURSIVE available_scan_swapped(_, _, _, _)
available_scan_swapped(acts, i, t, exercise) ==
    IF i = 0 THEN TRUE
    ELSE IF acts[i].exercise = exercise.name
            /\ (acts[i].time - t) < exercise.minimum_timedelta_between
         THEN FALSE
         ELSE available_scan_swapped(acts, i - 1, t, exercise)

\* the scan with the cooldown taken one tick too short
RECURSIVE available_scan_cooldown_short(_, _, _, _)
available_scan_cooldown_short(acts, i, t, exercise) ==
    IF i = 0 THEN TRUE
    ELSE IF acts[i].exercise = exercise.name
            /\ (t - acts[i].time) < exercise.minimum_timedelta_between - 1
         THEN FALSE
         ELSE available_scan_cooldown_short(acts, i - 1, t, exercise)

\* for action in reversed(self.actions): scans from index i down to 1
RECURSIVE available_scan(_, _, _, _)
available_scan(acts, i, t, exercise) ==
    IF i = 0 THEN TRUE
    ELSE IF acts[i].exercise = exercise.name
            /\ (t - acts[i].time) < exercise.minimum_timedelta_between
         THEN FALSE
         ELSE available_scan(acts, i - 1, t, exercise)

is_exercise_available(acts, t, exercise) ==
    available_scan(acts, Len(acts), t, exercise)

\* the inner loop skipping the action that lies exactly on earliest_goal_time
RECURSIVE running_boundary_skipped(_, _, _, _, _)
running_boundary_skipped(acts, i, earliest_goal_time, exercise, field) ==
    IF i = 0 THEN 0
    ELSE running_boundary_skipped(acts, i - 1, earliest_goal_time, exercise, field) +
         ( IF acts[i].exercise # exercise.name THEN 0
           ELSE IF acts[i].time <= earliest_goal_time THEN 0
           ELSE acts[i][field] )

\* running_reps / running_sets after the inner loop has visited acts[1..i]
RECURSIVE running(_, _, _, _, _)
running(acts, i, earliest_goal_time, exercise, field) ==
    IF i = 0 THEN 0
    ELSE running(acts, i - 1, earliest_goal_time, exercise, field) +
         ( IF acts[i].exercise # exercise.name THEN 0
           ELSE IF acts[i].time < earliest_goal_time THEN 0
           ELSE acts[i][field] )

\* the goal test with the comparison of the reps turned round
goal_unmet_reps_reversed(acts, t, exercise, goal) ==
    LET earliest_goal_time == t - goal.period
        running_reps == running(acts, Len(acts), earliest_goal_time, exercise, "reps")
        running_sets == running(acts, Len(acts), earliest_goal_time, exercise, "sets")
    IN  running_reps > goal.reps_per_period /\ running_sets <= goal.sets_per_period

goal_unmet(acts, t, exercise, goal) ==
    LET earliest_goal_time == t - goal.period
        running_reps == running(acts, Len(acts), earliest_goal_time, exercise, "reps")
        running_sets == running(acts, Len(acts), earliest_goal_time, exercise, "sets")
    IN  running_reps < goal.reps_per_period /\ running_sets <= goal.sets_per_period

\* for goal in exercise.goals: from goal k on
RECURSIVE unmet_scan(_, _, _, _)
unmet_scan(acts, t, exercise, k) ==
    IF k > Len(exercise.goals) THEN FALSE
    ELSE IF goal_unmet(acts, t, exercise, exercise.goals[k]) THEN TRUE
         ELSE unmet_scan(acts, t, exercise, k + 1)

has_unmet_goals(acts, t, exercise) == unmet_scan(acts, t, exercise, 1)

\* the scan without the test that skips the actions of other exercises
RECURSIVE too_long_scan_any_exercise(_, _, _, _)
too_long_scan_any_exercise(acts, i, minimum_longest_time, exercise) ==
    IF i > Len(acts) THEN TRUE
    ELSE IF acts[i].time >= minimum_longest_time THEN FALSE
         ELSE too_long_scan_any_exercise(acts, i + 1, minimum_longest_time, exercise)

\* the scan that takes an action exactly on minimum_longest_time as too old
RECURSIVE too_long_scan_boundary_old(_, _, _, _)
too_long_scan_boundary_old(acts, i, minimum_longest_time, exercise) ==
    IF i > Len(acts) THEN TRUE
    ELSE IF acts[i].exercise # exercise.name
         THEN too_long_scan_boundary_old(acts, i + 1, minimum_longest_time, exercise)
         ELSE IF acts[i].time > minimum_longest_time THEN FALSE
              ELSE too_long_scan_boundary_old(acts, i + 1, minimum_longest_time, exercise)

\* for action in self.actions: from index i on
RECURSIVE too_long_scan(_, _, _, _)
too_long_scan(acts, i, minimum_longest_time, exercise) ==
    IF i > Len(acts) THEN TRUE
    ELSE IF acts[i].exercise # exercise.name
         THEN too_long_scan(acts, i + 1, minimum_longest_time, exercise)
         ELSE IF acts[i].time >= minimum_longest_time THEN FALSE
              ELSE too_long_scan(acts, i + 1, minimum_longest_time, exercise)

been_too_long(acts, t, exercise) ==
    too_long_scan(acts, 1, t - exercise.maximum_timedelta_between, exercise)

\* randint with the upper bound one too far
randint_past_end(a, b) == a .. (b + 1)

\* random.randint(a, b): any integer of a..b
randint(a, b) == a .. b

\* the Action stamped one tick after the instant of the call
Action_stamped_late(t, exercise, r, s) ==
    [time |-> t + 1, exercise |-> exercise.name, reps |-> r, sets |-> s]

\* The Action built by _do_exercise_action, with the two random draws
Action(t, exercise, r, s) ==
    [time |-> t, exercise |-> exercise.name, reps |-> r, sets |-> s]

\* _do_exercise_action inserting the Action at the front of the history
do_exercise_action_insert_front(t, exercise) ==
    \E r \in randint(exercise.minimum_reps, exercise.maximum_reps) :
    \E s \in randint(exercise.minimum_sets, exercise.maximum_sets) :
        LET a == Action(t, exercise, r, s)
        IN  /\ actions' = << a >> \o actions
            /\ result' = << a >>
            /\ UNCHANGED pc

\* random.randint raises ValueError on an empty range, before the append
do_exercise_action(t, exercise) ==
    IF \/ randint(exercise.minimum_reps, exercise.maximum_reps) = {}
       \/ randint(exercise.minimum_sets, exercise.maximum_sets) = {}
    THEN /\ pc' = "ValueError"
         /\ result' = None
         /\ UNCHANGED actions
    ELSE \E r \in randint(exercise.minimum_reps, exercise.maximum_reps) :
         \E s \in randint(exercise.minimum_sets, exercise.maximum_sets) :
            LET a == Action(t, exercise, r, s)
            IN  /\ actions' = Append(actions, a)
                /\ result' = << a >>
                /\ UNCHANGED pc

\* the loop without the comparison of day_of_week with now.weekday()
RECURSIVE out_of_working_hours_any_day(_, _, _)
out_of_working_hours_any_day(periods, i, t) ==
    IF i = 0 THEN TRUE
    ELSE IF is_in(periods[i], t)
         THEN FALSE
         ELSE out_of_working_hours_any_day(periods, i - 1, t)

\* The loop over self.workout_plan.periods, after periods[1..i]
RECURSIVE out_of_working_hours(_, _, _)
out_of_working_hours(periods, i, t) ==
    IF i = 0 THEN TRUE
    ELSE IF periods[i].day_of_week = weekday(t) /\ is_in(periods[i], t)
         THEN FALSE
         ELSE out_of_working_hours(periods, i - 1, t)

\* first match: the list is left in order and its first element taken
first_match(seq) == IF Len(seq) = 0 THEN {} ELSE { seq[1] }

\* random.shuffle(seq); seq[0]: any element of seq can come first
shuffled_first(seq) == { seq[k] : k \in 1 .. Len(seq) }

\* available without the cooldown filter
available_at_unfiltered(acts, t) == plan.exercises

\* available = [e for e in self.workout_plan.exercises if self.is_exercise_available(now, e)]
available_at(acts, t) ==
    SelectSeq(plan.exercises, LAMBDA e : is_exercise_available(acts, t, e))

\* unmet = [e for e in available if self.has_unmet_goals(now, e)]
unmet_at(acts, t) ==
    SelectSeq(available_at(acts, t), LAMBDA e : has_unmet_goals(acts, t, e))

\* passed_max = [e for e in available if self.been_too_long(now, e)]
passed_max_at(acts, t) ==
    SelectSeq(available_at(acts, t), LAMBDA e : been_too_long(acts, t, e))

\* the cascade with the stale tier tried before the goal-deficient tier
candidates_stale_first(acts, t) ==
    LET available == available_at(acts, t)
        unmet == unmet_at(acts, t)
        passed_max == passed_max_at(acts, t)
    IN  IF 0 # Len(passed_max) THEN passed_max
        ELSE IF 0 # Len(unmet) THEN unmet
        ELSE available

\* the cascade without the stale tier
candidates_no_stale_tier(acts, t) ==
    LET available == available_at(acts, t)
        unmet == unmet_at(acts, t)
    IN  IF 0 # Len(unmet) THEN unmet
        ELSE available

\* The candidates the cascade of pick_action_for shuffles
candidates(acts, t) ==
    LET available == available_at(acts, t)
        unmet == unmet_at(acts, t)
        passed_max == passed_max_at(acts, t)
    IN  IF 0 # Len(unmet) THEN unmet
        ELSE IF 0 # Len(passed_max) THEN passed_max
        ELSE available

\* the call whose availability scan reverses the history in place
\* (self.actions.reverse() for reversed(self.actions))
pick_action_for_reversing_history(t) ==
    /\ now' = t
    /\ before' = actions
    /\ UNCHANGED plan
    /\ IF out_of_working_hours(plan.periods, Len(plan.periods), t)
       THEN /\ result' = None
            /\ UNCHANGED <<actions, pc>>
       ELSE IF 0 = Len(available_at(actions, t))
       THEN /\ result' = None
            /\ actions' = [k \in 1 .. Len(actions) |-> actions[Len(actions) + 1 - k]]
            /\ UNCHANGED pc
       ELSE \E e \in shuffled_first(candidates(actions, t)) :
                do_exercise_action(t, e)

\* pick_action_for shuffling the plan's own exercise list instead of a fresh list
pick_action_for_shuffling_plan(t) ==
    /\ now' = t
    /\ before' = actions
    /\ IF out_of_working_hours(plan.periods, Len(plan.periods), t)
       THEN /\ result' = None
            /\ UNCHANGED <<actions, pc, plan>>
       ELSE IF 0 = Len(available_at(actions, t))
       THEN /\ result' = None
            /\ UNCHANGED <<actions, pc, plan>>
       ELSE /\ \E e \in shuffled_first(candidates(actions, t)) :
                  do_exercise_action(t, e)
            /\ \E p \in Permutations(1 .. Len(plan.exercises)) :
                  plan' = [plan EXCEPT
                             !.exercises = [k \in 1 .. Len(plan.exercises) |->
                                               plan.exercises[p[k]]]]

\* The lists pick_action_for shuffles (unmet, passed_max, available) are fresh
\* lists built by the comprehensions; self.workout_plan is only read.
pick_action_for(t) ==
    /\ now' = t
    /\ before' = actions
    /\ UNCHANGED plan
    /\ IF out_of_working_hours(plan.periods, Len(plan.periods), t)
       THEN /\ result' = None
            /\ UNCHANGED <<actions, pc>>
       ELSE IF 0 = Len(available_at(actions, t))
       THEN /\ result' = None
            /\ UNCHANGED <<actions, pc>>
       ELSE \E e \in shuffled_first(candidates(actions, t)) :
                do_exercise_action(t, e)

----------------------------------------------------------------------------
(* The engine driven by arbitrary calls *)

InitWith(plans) ==
    /\ plan \in plans
    /\ actions = << >>
    /\ now = -1
    /\ result = None
    /\ before = << >>
    /\ pc = "idle"
    /\ current = 0
    /\ final = 0
    /\ idx = 0
    /\ current_day = 0
    /\ this_day_actions = << >>
    /\ day_randomized_actions = << >>
    /\ emitted = << >>
    /\ yielded = 0

Init == InitWith(Plans)

Call(t) ==
    /\ pc = "idle"
    /\ Len(actions) < MaxActions
    /\ pick_action_for(t)
    /\ UNCHANGED generator_vars

Next == \E t \in Times : Call(t)

Spec == Init /\ [][Next]_vars

\* The engine driven by a caller whose instants never go back
CallLater(t) ==
    /\ t >= now
    /\ Call(t)

NextMono == \E t \in Times : CallLater(t)

SpecMono == Init /\ [][NextMono]_vars

----------------------------------------------------------------------------
(* The sample-week generators.  One tick is the increment of               *)
(* generate_sample_week_increments (30 minutes); the jitter of 0..1800     *)
(* seconds is 0..jitter ticks.                                             *)

\* timedelta(days=8)
HorizonDays == 8

\* increment = timedelta(minutes=30)
increment == 1

\* jitter = timedelta(minutes=30); random.randint(0, jitter.seconds)
jitter == 1

\* datetime.now() when the generator starts
StartTimes == 0 .. MaxStart

\* The plans the generators are run on: a plan without exercises; a plan with
\* a window on weekday 0 only, a weekday the horizon of 8 days meets twice; a
\* plan with windows on two consecutive weekdays; a plan with one window of
\* four instants on weekday 2, a weekday the horizon meets once.
GenPlans ==
    LET A == ExerciseNamed("A")
        B == ExerciseNamed("B")
        C == ExerciseNamed("C")
    IN  { [exercises |-> << >>, periods |-> << WorkoutPeriod(0, 1, 2) >>],
          [exercises |-> << A, B >>, periods |-> << WorkoutPeriod(0, 1, 2) >>],
          [exercises |-> << B, C >>,
           periods |-> << WorkoutPeriod(0, 1, 2), WorkoutPeriod(1, 0, 0) >>],
          [exercises |-> << B, C >>, periods |-> << WorkoutPeriod(2, 0, 3) >>] }

\* random.shuffle(actions): the list in any order
shuffles(batch) ==
    { [k \in 1 .. Len(batch) |-> batch[p[k]]] : p \in Permutations(1 .. Len(batch)) }

keep_time_first_original(acts, batch, shuffled) ==
    [j \in 1 .. Len(acts) |->
        IF \E k \in 1 .. Len(shuffled) : shuffled[k] = j
        THEN [acts[j] EXCEPT !.time = acts[batch[1]].time]
        ELSE acts[j]]

\* shuffle_but_keep_time: the history after the Actions of batch, reordered as
\* shuffled, have been given the times the batch had position by position
keep_time(acts, batch, shuffled) ==
    LET originals == [k \in 1 .. Len(batch) |-> acts[batch[k]].time]
        position(j) == CHOOSE k \in 1 .. Len(shuffled) : shuffled[k] = j
    IN  [j \in 1 .. Len(acts) |->
            IF \E k \in 1 .. Len(shuffled) : shuffled[k] = j
            THEN [acts[j] EXCEPT !.time = originals[position(j)]]
            ELSE acts[j]]

\* shuffle_but_keep_time(this_day_actions); day_randomized_actions.extend(this_day_actions)
shuffle_but_keep_time_and_extend ==
    \E shuffled \in shuffles(this_day_actions) :
        /\ actions' = keep_time(actions, this_day_actions, shuffled)
        /\ day_randomized_actions' = day_randomized_actions \o shuffled

\* generate_sample_week_increments up to its first yield
GenStart ==
    /\ pc = "idle"
    /\ \E start \in StartTimes :
          /\ current' = start
          /\ final' = start + HorizonDays * TicksPerDay
    /\ pc' = "picking"
    /\ UNCHANGED engine_vars
    /\ UNCHANGED <<idx, current_day, this_day_actions, day_randomized_actions, emitted, yielded>>

\* the resumption without the fixed step: only the jitter is added
increments_resume_jitter_only ==
    \E j \in randint(0, jitter) : current' = current + j

\* generate_sample_week_increments resumed after a yield:
\* current += increment; current += timedelta(seconds=random.randint(0, jitter.seconds))
increments_resume ==
    \E j \in randint(0, jitter) : current' = current + increment + j

\* for now in generate_sample_week_increments(): await workout.pick_action_for(now)
GenPick ==
    /\ pc = "picking"
    /\ current <= final
    /\ pick_action_for(current)
    /\ increments_resume
    /\ UNCHANGED <<final, idx, current_day, this_day_actions,
                   day_randomized_actions, emitted, yielded>>

\* the increments are exhausted: current_day = workout.actions[0].time.weekday()
GenGroupStart ==
    /\ pc = "picking"
    /\ current > final
    /\ IF Len(actions) = 0
       THEN /\ pc' = "IndexError"
            /\ UNCHANGED <<idx, current_day>>
       ELSE /\ pc' = "grouping"
            /\ current_day' = weekday(actions[1].time)
            /\ idx' = 1
    /\ UNCHANGED engine_vars
    /\ UNCHANGED <<current, final, this_day_actions, day_randomized_actions, emitted, yielded>>

\* one iteration of: for action in workout.actions
GenGroup ==
    /\ pc = "grouping"
    /\ idx <= Len(actions)
    /\ IF weekday(actions[idx].time) # current_day
       THEN /\ shuffle_but_keep_time_and_extend
            /\ current_day' = weekday(actions[idx].time)
            /\ this_day_actions' = << idx >>
       ELSE /\ this_day_actions' = Append(this_day_actions, idx)
            /\ UNCHANGED <<actions, day_randomized_actions, current_day>>
    /\ idx' = idx + 1
    /\ UNCHANGED <<plan, now, result, before, pc, current, final, emitted, yielded>>

\* after the loop: the last batch
GenFlush ==
    /\ pc = "grouping"
    /\ idx > Len(actions)
    /\ IF 0 # Len(this_day_actions)
       THEN shuffle_but_keep_time_and_extend
       ELSE UNCHANGED <<actions, day_randomized_actions>>
    /\ pc' = "yielding"
    /\ UNCHANGED <<plan, now, result, before, current, final, idx, current_day,
                   this_day_actions, emitted, yielded>>

\* for action in day_randomized_actions: yield action
GenYield ==
    /\ pc = "yielding"
    /\ Len(emitted) < Len(day_randomized_actions)
    /\ emitted' = Append(emitted, actions[day_randomized_actions[Len(emitted) + 1]])
    /\ UNCHANGED engine_vars
    /\ UNCHANGED <<pc, current, final, idx, current_day, this_day_actions,
                   day_randomized_actions, yielded>>

GenDone ==
    /\ pc = "yielding"
    /\ Len(emitted) = Len(day_randomized_actions)
    /\ pc' = "done"
    /\ UNCHANGED engine_vars
    /\ UNCHANGED generator_vars

NextGen ==
    \/ GenStart
    \/ GenPick
    \/ GenGroupStart
    \/ GenGroup
    \/ GenFlush
    \/ GenYield
    \/ GenDone

InitGen == InitWith(GenPlans)

SpecGen == InitGen /\ [][NextGen]_vars

----------------------------------------------------------------------------
(* generate_sample_week_increments driven by a plain loop:                 *)
(* for now in generate_sample_week_increments(): pass                      *)

\* while current <= final: yield current, and the resumption that follows
IncYield ==
    /\ pc = "picking"
    /\ current <= final
    /\ now' = current
    /\ yielded' = yielded + 1
    /\ increments_resume
    /\ UNCHANGED <<plan, actions, result, before, pc>>
    /\ UNCHANGED <<final, idx, current_day, this_day_actions, day_randomized_actions,
                   emitted>>

\* the while condition fails: the generator returns
IncStop ==
    /\ pc = "picking"
    /\ current > final
    /\ pc' = "exhausted"
    /\ UNCHANGED engine_vars
    /\ UNCHANGED generator_vars

NextInc ==
    \/ GenStart
    \/ IncYield
    \/ IncStop

\* the loop is run to its end: no step of it is postponed for ever
SpecInc == InitGen /\ [][NextInc]_vars /\ WF_vars(NextInc)

----------------------------------------------------------------------------
(* generate_sample_week *)

\* workout.pick_action_for(now) called without await: the coroutine object
\* of the async method, whose body has not run
Coroutine == [coroutine |-> "pick_action_for"]

\* one iteration of the loop: action = workout.pick_action_for(now);
\* a coroutine object is true, so it is yielded
WeekStep ==
    /\ pc = "picking"
    /\ current <= final
    /\ emitted' = Append(emitted, Coroutine)
    /\ increments_resume
    /\ UNCHANGED engine_vars
    /\ UNCHANGED <<pc, final, idx, current_day, this_day_actions, day_randomized_actions,
                   yielded>>

WeekDone ==
    /\ pc = "picking"
    /\ current > final
    /\ pc' = "done"
    /\ UNCHANGED engine_vars
    /\ UNCHANGED generator_vars

NextWeek ==
    \/ GenStart
    \/ WeekStep
    \/ WeekDone

SpecWeek == InitGen /\ [][NextWeek]_vars

----------------------------------------------------------------------------
(* Vocabulary of the properties *)

\* a pick_action_for call has been made
Called == now # -1

Returned == result # None

PlanExercises == { plan.exercises[k] : k \in 1 .. Len(plan.exercises) }

PlanPeriods == { plan.periods[k] : k \in 1 .. Len(plan.periods) }

\* t lies in the period p of its weekday, both bounds included
Contains(p, t) ==
    /\ p.day_of_week = weekday(t)
    /\ midnight(t) + p.start <= t
    /\ t <= midnight(t) + p.end

InWindow(t) == \E p \in PlanPeriods : Contains(p, t)

\* the indices of the actions of exercise name n in the history acts
IndicesOf(acts, n) == { i \in 1 .. Len(acts) : acts[i].exercise = n }

\* e is in cooldown at t: some action of e is less than its cooldown before t
InCooldown(acts, t, e) ==
    \E i \in IndicesOf(acts, e.name) : t - acts[i].time < e.minimum_timedelta_between

\* e has a goal whose sums over the window fall short
GoalDeficient(acts, t, e) == has_unmet_goals(acts, t, e)

Stale(acts, t, e) == been_too_long(acts, t, e)

Deficient(t) ==
    { e \in PlanExercises : ~InCooldown(before, t, e) /\ GoalDeficient(before, t, e) }

StaleOnes(t) ==
    { e \in PlanExercises : ~InCooldown(before, t, e) /\ Stale(before, t, e) }

Free(t) == { e \in PlanExercises : ~InCooldown(before, t, e) }

Picked == ExerciseNamed(result[1].exercise)

----------------------------------------------------------------------------
(* C1: after any sequence of pick_action_for calls from an empty history,  *)
(* two actions of the same exercise that are consecutive among that        *)
(* exercise's actions in history order are at least the exercise's         *)
(* minimum_timedelta_between apart (later minus earlier).                  *)
C1_CooldownRespected ==
    \A i, j \in 1 .. Len(actions) :
        ( /\ i < j
          /\ actions[i].exercise = actions[j].exercise
          /\ \A k \in (i + 1) .. (j - 1) : actions[k].exercise # actions[i].exercise )
        => actions[j].time - actions[i].time
              >= ExerciseNamed(actions[i].exercise).minimum_timedelta_between

\* the same exercise twice in a history whose timestamps are not increasing
C1_Witness ==
    /\ \E i, j \in 1 .. Len(actions) :
          i < j /\ actions[i].exercise = actions[j].exercise
    /\ \E k \in 1 .. (Len(actions) - 1) : actions[k + 1].time < actions[k].time

(* C2: when a call returns an action and some available exercise is        *)
(* goal-deficient, the returned exercise is available and goal-deficient,  *)
(* whatever the order of the plan's exercise list.                         *)
C2_GoalTierWins ==
    (Called /\ Returned /\ Deficient(now) # {})
        => Picked \in Deficient(now)

\* a stale exercise without unmet goals comes first in the plan and is passed over
C2_Witness ==
    /\ Called /\ Returned /\ Deficient(now) # {}
    /\ plan.exercises[1] \in StaleOnes(now) \ Deficient(now)
    /\ Picked # plan.exercises[1]

(* C3: in-window, with no available goal-deficient exercise and some       *)
(* available stale one, the call returns an available stale exercise; an   *)
(* exercise that is neither is returned only when no available exercise is *)
(* goal-deficient or stale.                                                *)
C3_StaleTierNext ==
    /\ (Called /\ InWindow(now) /\ Deficient(now) = {} /\ StaleOnes(now) # {})
          => (Returned /\ Picked \in StaleOnes(now))
    /\ (Called /\ Returned /\ Picked \notin Deficient(now) /\ Picked \notin StaleOnes(now))
          => (Deficient(now) = {} /\ StaleOnes(now) = {} /\ Picked \in Free(now))

\* the stale tier is used although an available exercise is neither stale nor deficient
C3_Witness ==
    /\ Called /\ InWindow(now) /\ Deficient(now) = {} /\ StaleOnes(now) # {}
    /\ Returned /\ Picked \in StaleOnes(now)
    /\ Free(now) \ StaleOnes(now) # {}

(* C4: for an instant outside every period of its weekday (also a weekday  *)
(* without period) the call returns no action, whatever the history.       *)
C4_OutOfWindowNoAction ==
    (Called /\ ~InWindow(now)) => (~Returned /\ actions = before)

\* a weekday without period, with a history and an available goal-deficient exercise
C4_Witness ==
    /\ Called /\ ~InWindow(now) /\ ~Returned
    /\ before # << >>
    /\ Deficient(now) # {}
    /\ PlanPeriods # {}
    /\ \A p \in PlanPeriods : p.day_of_week # weekday(now)

(* C5: in-window, the call returns no action exactly when every exercise   *)
(* of the plan is in cooldown; a returned exercise is in the plan and      *)
(* available; no call raises an error.                                     *)
C5_NoActionIffAllInCooldown ==
    /\ (Called /\ InWindow(now)) => (~Returned <=> Free(now) = {})
    /\ (Called /\ Returned) => Picked \in Free(now)
    /\ pc # "ValueError"

\* in-window, a non-empty plan wholly in cooldown
C5_Witness ==
    /\ Called /\ InWindow(now) /\ ~Returned
    /\ PlanExercises # {}
    /\ Free(now) = {}

(* C6: every action of the history has reps and sets within the ranges of  *)
(* its exercise, both ends included.                                       *)
C6_RepsSetsInRange ==
    \A i \in 1 .. Len(actions) :
        LET e == ExerciseNamed(actions[i].exercise)
        IN  /\ e.minimum_reps <= actions[i].reps /\ actions[i].reps <= e.maximum_reps
            /\ e.minimum_sets <= actions[i].sets /\ actions[i].sets <= e.maximum_sets

\* the upper end of a reps range and the upper end of a sets range are drawn
C6_Witness ==
    /\ \E i \in 1 .. Len(actions) :
          LET e == ExerciseNamed(actions[i].exercise)
          IN  actions[i].reps = e.maximum_reps /\ e.minimum_reps < e.maximum_reps
    /\ \E i \in 1 .. Len(actions) :
          LET e == ExerciseNamed(actions[i].exercise)
          IN  actions[i].sets = e.maximum_sets /\ e.minimum_sets < e.maximum_sets

(* C7: a call that returns an action has appended exactly that action, with *)
(* time = now, as the last element; the earlier elements keep position and *)
(* content; the history never shrinks.                                     *)
C7_AppendOnly ==
    [][ /\ (result' # None) =>
              /\ actions' = Append(actions, result'[1])
              /\ result'[1].time = now'
        /\ Len(actions') >= Len(actions)
        /\ \A i \in 1 .. Len(actions) : actions'[i] = actions[i] ]_vars

\* an action appended to a history that already holds two
C7_Witness ==
    /\ Called /\ Returned
    /\ Len(before) >= 2
    /\ actions = Append(before, result[1])

(* C8: once an Action is in the history, its fields (time, exercise, reps, *)
(* sets) never change under any operation of the program, the              *)
(* day-randomization generator included.                                   *)
C8_ActionsImmutable ==
    [][ \A i \in 1 .. Len(actions) : actions'[i] = actions[i] ]_vars

(* C9: an instant is in-window exactly when some period of the plan has    *)
(* its weekday and contains it, both bounds included; one containing       *)
(* period suffices.                                                        *)
C9_InWindowExactly ==
    /\ \A t \in Times :
          ~out_of_working_hours(plan.periods, Len(plan.periods), t) <=> InWindow(t)
    /\ (Called /\ Returned) => InWindow(now)

\* an action at the end bound of a period, a later period of the weekday not containing it
C9_Witness ==
    /\ Called /\ Returned
    /\ \E i, j \in 1 .. Len(plan.periods) :
          /\ i < j
          /\ plan.periods[i].day_of_week = weekday(now)
          /\ plan.periods[j].day_of_week = weekday(now)
          /\ now = midnight(now) + plan.periods[i].end
          /\ ~Contains(plan.periods[j], now)

(* C10: an exercise without action in the history is available and stale  *)
(* at every instant, whatever the actions of other exercises.              *)
C10_NeverDoneAvailableAndStale ==
    \A e \in ExercisePool : \A t \in Times :
        IndicesOf(actions, e.name) = {}
            => (is_exercise_available(actions, t, e) /\ been_too_long(actions, t, e))

\* an exercise of the plan without action beside two actions of another
C10_Witness ==
    \E e \in PlanExercises :
        /\ IndicesOf(actions, e.name) = {}
        /\ Len(actions) >= 2

\* the goals of e, as a set
GoalsOf(e) == { e.goals[k] : k \in 1 .. Len(e.goals) }

\* e has no action in acts and a goal asking for reps > 0 and sets >= 0
FreshWithGoal(acts, e) ==
    /\ IndicesOf(acts, e.name) = {}
    /\ \E g \in GoalsOf(e) : g.reps_per_period > 0 /\ g.sets_per_period >= 0

(* C11: in-window, an exercise without history that has a goal with        *)
(* reps_per_period > 0 and sets_per_period >= 0 is available and           *)
(* goal-deficient; when it is the only available goal-deficient exercise,  *)
(* the call returns an action for exactly that exercise.                   *)
C11_FreshGoalExerciseSelected ==
    (Called /\ InWindow(now)) =>
        \A e \in PlanExercises :
            FreshWithGoal(before, e) =>
                /\ is_exercise_available(before, now, e)
                /\ has_unmet_goals(before, now, e)
                /\ (Deficient(now) = {e}) => (Returned /\ Picked = e)

\* a fresh exercise with a goal is returned, a stale exercise without goal stands before it
C11_Witness ==
    /\ Called /\ InWindow(now) /\ Returned
    /\ FreshWithGoal(before, Picked)
    /\ Deficient(now) = {Picked}
    /\ before # << >>
    /\ \E e \in StaleOnes(now) : e # Picked

\* the tier the cascade chooses at t over the history acts, as a set of exercises
TierAt(acts, t) ==
    LET free == { e \in PlanExercises : ~InCooldown(acts, t, e) }
        deficient == { e \in free : GoalDeficient(acts, t, e) }
        stale == { e \in free : Stale(acts, t, e) }
    IN  IF deficient # {} THEN deficient
        ELSE IF stale # {} THEN stale
        ELSE free

\* a call at t can return an action for e
CanPick(t, e) ==
    ENABLED ( /\ Call(t)
              /\ result' # None
              /\ result'[1].exercise = e.name )

(* C12: within the tier the cascade chooses, every exercise of the tier is *)
(* a possible result of the call and no exercise outside it is, whatever   *)
(* the positions of the exercises in the plan list.                        *)
C12_PossiblePicksAreTheTier ==
    (pc = "idle" /\ Len(actions) < MaxActions) =>
        \A t \in Times : InWindow(t) =>
            \A e \in ExercisePool : CanPick(t, e) <=> e \in TierAt(actions, t)

\* the tier of the latest call held two exercises and the second of the plan was returned
C12_Witness ==
    /\ Called /\ Returned
    /\ Cardinality(TierAt(before, now)) >= 2
    /\ Len(plan.exercises) >= 2
    /\ Picked = plan.exercises[2]

(* C13: no pick_action_for call changes the plan: the exercise list        *)
(* (membership and order), the fields and goals of each exercise and the   *)
(* workout periods are the same after any sequence of calls, the calls     *)
(* that shuffle candidate lists included.                                  *)
C13_PlanNeverChanges ==
    [][ plan' = plan ]_vars

\* the catch-all tier shuffled a list holding every exercise of a plan of two
C13_Witness ==
    /\ Called /\ Returned
    /\ Deficient(now) = {} /\ StaleOnes(now) = {}
    /\ Len(plan.exercises) >= 2
    /\ Free(now) = PlanExercises

(* C14: generate_sample_week feeds each instant to the engine and emits,   *)
(* in order, exactly the Actions the engine produced: an instant without   *)
(* action adds no element, and every emitted element is an Action of the   *)
(* engine's history.                                                       *)
C14_WeekEmitsEngineActions ==
    /\ Len(emitted) = Len(actions)
    /\ \A k \in 1 .. Len(emitted) : emitted[k] = actions[k]

\* the Action objects a list of history indices stands for
Listed(acts, batch) == [k \in 1 .. Len(batch) |-> acts[batch[k]]]

\* multiset of the timestamps of a list of Actions
TimesBag(list) ==
    [t \in { list[k].time : k \in 1 .. Len(list) } |->
        Cardinality({ k \in 1 .. Len(list) : list[k].time = t })]

Triple(a) == << a.exercise, a.reps, a.sets >>

\* multiset of the (exercise, reps, sets) triples of a list of Actions
TriplesBag(list) ==
    [x \in { Triple(list[k]) : k \in 1 .. Len(list) } |->
        Cardinality({ k \in 1 .. Len(list) : Triple(list[k]) = x })]

\* the history as the engine recorded it, once the picking loop is over
Recorded == IF result = None THEN before ELSE Append(before, result[1])

\* the list shuffle_but_keep_time has just been applied to, in its new order
JustShuffled ==
    SubSeq(day_randomized_actions', Len(day_randomized_actions) + 1,
           Len(day_randomized_actions'))

(* C15: every shuffle_but_keep_time leaves the multiset of timestamps and  *)
(* the multiset of (exercise, reps, sets) triples of its list unchanged,   *)
(* and the timestamps generate_sample_week_with_day_randomization has      *)
(* emitted when it ends are, as a multiset, those the engine recorded.     *)
C15_ShufflePreservesMultisets ==
    /\ [][ day_randomized_actions' # day_randomized_actions =>
             /\ TimesBag(Listed(actions', JustShuffled))
                  = TimesBag(Listed(actions, this_day_actions))
             /\ TriplesBag(Listed(actions', JustShuffled))
                  = TriplesBag(Listed(actions, this_day_actions)) ]_vars
    /\ [](pc = "done" => TimesBag(emitted) = TimesBag(Recorded))

C15_Witness ==
    /\ pc = "done"
    /\ Len(emitted) >= 2
    /\ emitted # Recorded
    /\ \E k \in 1 .. Len(emitted) : Triple(emitted[k]) # Triple(Recorded[k])

(* C16: a batch handed to shuffle_but_keep_time holds actions of one       *)
(* calendar day only, so that no (exercise, reps, sets) assignment is      *)
(* moved to a timestamp of another calendar date.                          *)
C16_BatchWithinOneDay ==
    \A i, j \in 1 .. Len(this_day_actions) :
        midnight(actions[this_day_actions[i]].time)
          = midnight(actions[this_day_actions[j]].time)

\* the actions of e that a goal over `period` counts at t
InGoalWindow(acts, t, e, period) ==
    { i \in IndicesOf(acts, e.name) : acts[i].time >= t - period }

\* sum of a field over a set of history indices
RECURSIVE SumOver(_, _, _)
SumOver(acts, S, field) ==
    IF S = {} THEN 0
    ELSE LET i == CHOOSE x \in S : TRUE
         IN  acts[i][field] + SumOver(acts, S \ {i}, field)

\* goal number k of e falls short at t
FallsShort(acts, t, e, k) ==
    LET g == e.goals[k]
        W == InGoalWindow(acts, t, e, g.period)
    IN  /\ SumOver(acts, W, "reps") < g.reps_per_period
        /\ SumOver(acts, W, "sets") <= g.sets_per_period

(* C17: has_unmet_goals(now, E) is true exactly when some goal of E has,   *)
(* over the actions of E with time >= now - period, a sum of reps below    *)
(* reps_per_period and a sum of sets not above sets_per_period; a goal     *)
(* whose sets exceed the target is met, and an exercise without goals is   *)
(* never goal-deficient.                                                   *)
C17_UnmetGoalsCharacterized ==
    \A t \in Times : \A e \in ExercisePool :
        /\ has_unmet_goals(actions, t, e)
             <=> \E k \in 1 .. Len(e.goals) : FallsShort(actions, t, e, k)
        /\ \A k \in 1 .. Len(e.goals) :
             LET W == InGoalWindow(actions, t, e, e.goals[k].period)
             IN  SumOver(actions, W, "sets") > e.goals[k].sets_per_period
                   => ~goal_unmet(actions, t, e, e.goals[k])
        /\ Len(e.goals) = 0 => ~has_unmet_goals(actions, t, e)

C17_Witness ==
    \E t \in Times : \E e \in PlanExercises : \E k \in 1 .. Len(e.goals) :
        LET g == e.goals[k]
            W == InGoalWindow(actions, t, e, g.period)
        IN  /\ \E i \in W : actions[i].time = t - g.period
            /\ IndicesOf(actions, e.name) # 1 .. Len(actions)
            /\ SumOver(actions, W, "reps") < g.reps_per_period
            /\ SumOver(actions, W, "sets") > g.sets_per_period
            /\ ~has_unmet_goals(actions, t, e)

(* C18: been_too_long(now, E) is true exactly when every action of E in    *)
(* the history has time < now - E.maximum_timedelta_between; one action of *)
(* E at that instant or later makes E non-stale, and the actions of other  *)
(* exercises have no influence.                                            *)
C18_TooLongCharacterized ==
    \A t \in Times : \A e \in ExercisePool :
        LET floor == t - e.maximum_timedelta_between
            own == SelectSeq(actions, LAMBDA a : a.exercise = e.name)
        IN  /\ been_too_long(actions, t, e)
                 <=> \A i \in IndicesOf(actions, e.name) : actions[i].time < floor
            /\ (\E i \in IndicesOf(actions, e.name) : actions[i].time >= floor)
                 => ~been_too_long(actions, t, e)
            /\ been_too_long(actions, t, e) <=> been_too_long(own, t, e)

C18_Witness ==
    \E t \in Times : \E e \in PlanExercises :
        LET floor == t - e.maximum_timedelta_between
        IN  /\ \E i \in IndicesOf(actions, e.name) : actions[i].time = floor
            /\ \A i \in IndicesOf(actions, e.name) : actions[i].time <= floor
            /\ \E i \in 1 .. Len(actions) :
                  actions[i].exercise # e.name /\ actions[i].time < floor
            /\ \E i \in 1 .. Len(actions) :
                  actions[i].exercise # e.name /\ actions[i].time > floor
            /\ ~been_too_long(actions, t, e)

\* the index of the action of e appended last
LastOf(acts, e) ==
    CHOOSE i \in IndicesOf(acts, e.name) : \A j \in IndicesOf(acts, e.name) : j <= i

\* availability decided from the most recently appended action of e alone
AvailableByLast(acts, t, e) ==
    \/ IndicesOf(acts, e.name) = {}
    \/ ~(t - acts[LastOf(acts, e)].time < e.minimum_timedelta_between)

(* C19: on every history the engine builds from an empty one,              *)
(* is_exercise_available(now, E), which scans all actions of E, answers as *)
(* a test of E's most recently appended action alone does, for every now;  *)
(* the sets of available exercises, and so the tiers, are the same.        *)
C19_LastActionDecidesAvailability ==
    /\ \A t \in Times : \A e \in ExercisePool :
          is_exercise_available(actions, t, e) <=> AvailableByLast(actions, t, e)
    /\ \A t \in Times :
          available_at(actions, t)
            = SelectSeq(plan.exercises, LAMBDA e : AvailableByLast(actions, t, e))

C19_Witness ==
    \E t \in Times : \E e \in PlanExercises :
        /\ Cardinality(IndicesOf(actions, e.name)) >= 2
        /\ LastOf(actions, e) < Len(actions)
        /\ t - actions[LastOf(actions, e)].time = e.minimum_timedelta_between
        /\ e.minimum_timedelta_between > 0
        /\ is_exercise_available(actions, t, e)
        /\ ~is_exercise_available(actions, t - 1, e)

\* the instant generate_sample_week_increments started from
StartOf == final - HorizonDays * TicksPerDay

\* 385 when a day has 48 increments
MaxYields == (HorizonDays * TicksPerDay) \div increment + 1

(* C20: generate_sample_week_increments terminates whatever the jitter     *)
(* draws; the first instant yielded is the start, each next one is later   *)
(* by an increment up to an increment plus the jitter (30 to 60 minutes),  *)
(* none is later than start + 8 days, and at most                          *)
(* 8 days / increment + 1 instants are yielded.                            *)
C20_IncrementsTerminate ==
    /\ <>(pc = "exhausted")
    /\ [](yielded = 1 => now = StartOf)
    /\ [](yielded >= 1 => now <= final)
    /\ [](yielded <= MaxYields)
    /\ [][ (yielded' # yielded /\ yielded >= 1) =>
              /\ now' > now
              /\ now' - now >= increment
              /\ now' - now <= increment + jitter ]_vars

C20_Witness ==
    /\ pc = "exhausted"
    /\ yielded > (HorizonDays * TicksPerDay) \div (increment + jitter) + 1
    /\ yielded < MaxYields
    /\ now = final

\* any two Actions of a list that name the same exercise lie at least that
\* exercise's minimum_timedelta_between apart
CooldownApart(list) ==
    \A i, j \in 1 .. Len(list) :
        (i # j /\ list[i].exercise = list[j].exercise /\ list[i].time >= list[j].time)
        => list[i].time - list[j].time
              >= ExerciseNamed(list[i].exercise).minimum_timedelta_between

(* C21: in what generate_sample_week_with_day_randomization emits, and in  *)
(* the engine's history after it has run, any two actions of the same      *)
(* exercise are at least that exercise's minimum_timedelta_between apart.  *)
C21_ShuffleKeepsCooldown ==
    /\ CooldownApart(actions)
    /\ CooldownApart(emitted)

(* C22: when no instant of the horizon gave an action,                     *)
(* generate_sample_week_with_day_randomization goes on to its normal end   *)
(* with nothing emitted: the empty history raises no exception.            *)
C22_EmptyWeekCompletes ==
    (pc \notin {"idle", "picking"} /\ Len(actions) = 0)
    => (pc \in {"grouping", "yielding", "done"} /\ emitted = << >>)

\* every exercise of the plan has a strictly positive cooldown
AllCooldownsPositive == \A e \in PlanExercises : e.minimum_timedelta_between > 0

\* the actions of a history recorded at instant t
DoneAt(acts, t) == { i \in 1 .. Len(acts) : acts[i].time = t }

(* C23: with strictly positive cooldowns, calls repeated at one instant    *)
(* never pick an exercise twice: no two actions of the history share       *)
(* exercise and timestamp, at most N = number of exercises actions carry   *)
(* one timestamp, and a call at an instant at which every exercise has     *)
(* already been done returns no action.                                    *)
C23_NoRepeatAtSameInstant ==
    AllCooldownsPositive =>
        /\ \A i, j \in 1 .. Len(actions) :
              (i # j /\ actions[i].exercise = actions[j].exercise)
              => actions[i].time # actions[j].time
        /\ \A t \in Times : Cardinality(DoneAt(actions, t)) <= Len(plan.exercises)
        /\ ( /\ Called
             /\ \A e \in PlanExercises :
                   \E i \in DoneAt(before, now) : before[i].exercise = e.name )
           => result = None

C23_Witness ==
    /\ AllCooldownsPositive
    /\ Called
    /\ InWindow(now)
    /\ Len(plan.exercises) = 2
    /\ Cardinality(DoneAt(before, now)) = 2
    /\ result = None
    /\ actions = before

(* C24: a pick_action_for call that returns no action, out of the window   *)
(* or with every exercise in cooldown, leaves the history as it was: same  *)
(* length, same actions, same order.                                       *)
C24_NoActionLeavesHistory ==
    [][ (now' # -1 /\ pc' = "idle" /\ result' = None) =>
           /\ Len(actions') = Len(actions)
           /\ \A k \in 1 .. Len(actions) : actions'[k] = actions[k] ]_vars

C24_Witness ==
    /\ Called
    /\ InWindow(now)
    /\ ~Returned
    /\ Free(now) = {}
    /\ Len(before) >= 2
    /\ before[1] # before[2]
    /\ actions = before

\* the timestamps of a history never decrease along it
TimesSorted(acts) ==
    \A i, j \in 1 .. Len(acts) : i < j => acts[i].time <= acts[j].time

(* C25: when the instants passed to successive pick_action_for calls never *)
(* decrease, the timestamps of the history never decrease in history       *)
(* order, and every timestamp is the instant of the call that recorded it  *)
(* and lies in a window of the plan.                                       *)
C25_HistoryFollowsTheCalls ==
    /\ [](TimesSorted(actions))
    /\ [](\A i \in 1 .. Len(actions) :
             InWindow(actions[i].time) /\ actions[i].time <= now)
    /\ [][ /\ Len(actions') >= Len(actions)
           /\ SubSeq(actions', 1, Len(actions)) = actions
           /\ \A k \in (Len(actions) + 1) .. Len(actions') :
                 actions'[k].time = now' ]_vars

C25_Witness ==
    /\ Len(actions) >= 3
    /\ actions[1].time = actions[2].time
    /\ actions[2].time < actions[3].time
    /\ actions[1].exercise # actions[2].exercise
    /\ now = actions[3].time

====
